---------------------------- MODULE Spec2Model ----------------------------
(***************************************************************************)
(* A model of the LeadsBaixada repository:                                 *)
(*   - collector.py: the Google Places collector with its whole-file JSON  *)
(*     cache (carregar_cache, salvar_cache, coletar_dados, main);          *)
(*   - app_streamlit_folium.py: the dashboard's CSV loading and the        *)
(*     municipality/category filter.                                       *)
(***************************************************************************)
EXTENDS Integers, Sequences, FiniteSets, TLC

VARIABLES
    \* ---- collector.py ----
    file,      \* cache.json on disk: [st |-> "missing" | "partial" | "ok", txt |-> JSON object]
    outputs,   \* output files on disk: set of [path, fmt, n, proc, run]
    pc,        \* per process: position in main / coletar_dados
    cache,     \* per process: the local dict `cache` of coletar_dados
    todos,     \* per process: the local list `todos`
    qi,        \* per process: position of the nested for loop (index of the query)
    results,   \* per process: places of `results` not yet iterated
    dados,     \* per process: the local list `dados`
    run,       \* per process: number of the main() invocation it is executing
    nruns,     \* number of main() invocations started so far
    nq,        \* number of (municipality, category) queries a run iterates over
    \* ---- observations of the collector (history) ----
    loaded,    \* per process: the cache as carregar_cache returned it
    log,       \* per process: API calls of the current run, <<kind, query, place_id>>
    trace,     \* per process: what the current/last main() invocation did
    hist,      \* completed coletar_dados calls, in order of completion
    failed,    \* searches that raised: set of <<run number, query>>
    saved,     \* entries that cache.json has held: <<proc or "init", query, records>>
    intr,      \* the last interruption: [k, at, before, run]
    \* ---- app_streamlit_folium.py ----
    csv,       \* the CSV file: [exists, parse, cols, rows]
    df,        \* what load_data_from_file returned
    mun_sel,   \* sidebar multiselect "Municipios"
    cat_sel,   \* sidebar multiselect "Categorias"
    df_filt,   \* the filtered table
    dpc        \* position of the dashboard script

collectorVars == <<file, outputs, pc, cache, todos, qi, results, dados, run,
                   nruns, nq, loaded, log, trace, hist, failed, saved, intr>>
dashVars == <<csv, df, mun_sel, cat_sel, df_filt, dpc>>
vars == <<collectorVars, dashVars>>

-----------------------------------------------------------------------------
(* Bounds of the model *)

\* queries a run iterates over: the first NumQueries of the 9 x 3 pairs
NumQueries == 4
\* queries iterated over by runs that are killed or that execute concurrently
FewQueries == 2
\* main() invocations per behaviour
MaxRuns == 2
\* rows of the CSV file
MaxRows == 2

-----------------------------------------------------------------------------
(* Python values and their JSON text (json.dump / json.load) *)

PyNone == [t |-> "None", v |-> ""]
PyStr(s) == [t |-> "str", v |-> s]
PyNum(s) == [t |-> "num", v |-> s]

PyValues ==
    {PyNone} \cup
    {PyStr(s) : s \in {"ChIJ-a", "ChIJ-b", "Bar do Ze", "Adega 13", "Av. Ana Costa, 1",
                       "(13) 3000-0000", "https://bar.example",
                       "Bertioga", "Cubatao", "Guaruja", "Itanhaem", "Mongagua",
                       "Peruibe", "Praia Grande", "Santos", "Sao Vicente",
                       "bar", "adega", "casa noturna", "null", "None"}} \cup
    {PyNum(s) : s \in {"4.5", "120", "-23.96", "-46.33"}}

\* the JSON text that denotes a value (the grammar json.load reads)
JsonText(x) ==
    CASE x.t = "None" -> "null"
      [] x.t = "str" -> "\"" \o x.v \o "\""
      [] x.t = "num" -> x.v

\* an encoder that writes None as the string "None"
JsonDumpValNoNull(x) ==
    CASE x.t = "None" -> "\"None\""
      [] x.t = "str" -> "\"" \o x.v \o "\""
      [] x.t = "num" -> x.v

\* json.dump of a scalar
JsonDumpVal(x) ==
    CASE x.t = "None" -> "null"
      [] x.t = "str" -> "\"" \o x.v \o "\""
      [] x.t = "num" -> x.v

JsonTable == [x \in PyValues |-> JsonText(x)]

\* the value that a JSON text denotes
JsonParse ==
    [j \in {JsonTable[x] : x \in PyValues} |-> CHOOSE x \in PyValues : JsonTable[x] = j]

\* json.load of a scalar
JsonLoadVal(j) == JsonParse[j]

\* a dict with string keys <-> a JSON object
JsonDumpRec(d) == [k \in DOMAIN d |-> JsonDumpVal(d[k])]
JsonLoadRec(o) == [k \in DOMAIN o |-> JsonLoadVal(o[k])]

\* the cache: {query: [record, ...]}
JsonDump(c) == [q \in DOMAIN c |-> [i \in 1..Len(c[q]) |-> JsonDumpRec(c[q][i])]]
JsonLoad(t) == [q \in DOMAIN t |-> [i \in 1..Len(t[q]) |-> JsonLoadRec(t[q][i])]]

-----------------------------------------------------------------------------
(* collector.py: the targets *)

\* (accented letters are written unaccented: TLC keeps ASCII strings only)
MUNICIPIOS ==
    << <<"Bertioga", "Bertioga, SP">>,
       <<"Cubatao", "Cubatao, SP">>,
       <<"Guaruja", "Guaruja, SP">>,
       <<"Itanhaem", "Itanhaem, SP">>,
       <<"Mongagua", "Mongagua, SP">>,
       <<"Peruibe", "Peruibe, SP">>,
       <<"Praia Grande", "Praia Grande, SP">>,
       <<"Santos", "Santos, SP">>,
       <<"Sao Vicente", "Sao Vicente, SP">> >>

CATEGORIAS == <<"bar", "adega", "casa noturna">>

\* query = f"{cat} em {mun_str}"
QueryStr(cat, mun_str) == cat \o " em " \o mun_str

\* the k-th iteration of `for mun_key, mun_str in MUNICIPIOS.items(): for cat in CATEGORIAS`
Iteration(k) ==
    LET m == ((k - 1) \div Len(CATEGORIAS)) + 1
        c == ((k - 1) % Len(CATEGORIAS)) + 1
    IN  [mun_key |-> MUNICIPIOS[m][1],
         mun_str |-> MUNICIPIOS[m][2],
         cat     |-> CATEGORIAS[c],
         query   |-> QueryStr(CATEGORIAS[c], MUNICIPIOS[m][2])]

TotalQueries == Len(MUNICIPIOS) * Len(CATEGORIAS)

Procs == {"A", "B"}

-----------------------------------------------------------------------------
(* collector.py: the cache file *)

EmptyDict == [q \in {} |-> <<>>]

Get(d, k) == IF k \in DOMAIN d THEN d[k] ELSE PyNone
GetOr(d, k, default) == IF k \in DOMAIN d THEN d[k] ELSE default

\* carregar_cache(): the dict read from cache.json, {} when it does not exist.
\* json.load raises on a file that is not a complete JSON text (see LoadFail).
carregar_cache ==
    IF file.st = "missing" THEN EmptyDict ELSE JsonLoad(file.txt)

\* a dump that leaves out empty record lists
salvar_cache_nonempty(data) ==
    [st |-> "ok", txt |-> JsonDump([q \in {x \in DOMAIN data : data[x] # <<>>} |-> data[q]])]

\* salvar_cache(data): cache.json after the dump has completed
salvar_cache(data) == [st |-> "ok", txt |-> JsonDump(data)]

\* cache.json between open(CACHE_FILE, "w") and the end of json.dump
Truncated == [st |-> "partial", txt |-> EmptyDict]

\* cache = {query: dados}
AssignFresh(c, q, d) == [x \in {q} |-> d]

\* cache = carregar_cache(); cache[query] = dados
AssignReloaded(c, q, d) ==
    LET base == IF file.st = "partial" THEN c ELSE carregar_cache
    IN  [x \in DOMAIN base \cup DOMAIN c \cup {q} |->
            IF x = q THEN d ELSE IF x \in DOMAIN c THEN c[x] ELSE base[x]]

\* cache[query] = dados
Assign(c, q, d) == [x \in DOMAIN c \cup {q} |-> IF x = q THEN d ELSE c[x]]

\* `query in cache`, never true
InCacheNever(c, q) == FALSE

\* `query in cache`
InCache(c, q) == q \in DOMAIN c

-----------------------------------------------------------------------------
(* collector.py: the places API and the record of a place *)

PlaceA ==
    [place_id |-> PyStr("ChIJ-a"), name |-> PyStr("Bar do Ze"),
     formatted_address |-> PyStr("Av. Ana Costa, 1"),
     rating |-> PyNum("4.5"), user_ratings_total |-> PyNum("120"),
     geometry |-> [location |-> [lat |-> PyNum("-23.96"), lng |-> PyNum("-46.33")]]]

PlaceB == [place_id |-> PyStr("ChIJ-b"), name |-> PyStr("Adega 13")]

\* a response without the key "results"
NoResults == [exc |-> FALSE, body |-> [status |-> "ZERO_RESULTS"]]

\* what client.places(query=...) can do: raise, or return a response
SearchResponses ==
    { [exc |-> TRUE,  body |-> EmptyDict],
      NoResults,
      [exc |-> FALSE, body |-> [results |-> <<PlaceB, PlaceA>>]] }

\* the same, for the runs that are killed or that execute concurrently
FewSearchResponses ==
    { [exc |-> TRUE,  body |-> EmptyDict],
      [exc |-> FALSE, body |-> [results |-> <<PlaceA>>]] }

DetailRaises == [exc |-> TRUE, body |-> EmptyDict]
DetailNotFound == [exc |-> FALSE, body |-> [status |-> "NOT_FOUND"]]
DetailFound ==
    [exc |-> FALSE, body |-> [result |->
        [formatted_phone_number |-> PyStr("(13) 3000-0000"),
         website |-> PyStr("https://bar.example")]]]

\* what client.place(place_id=...) can do for a place: raise, or return a response
\* (the place ChIJ-b has no details)
DetailResponses ==
    [pid \in {"ChIJ-a", "ChIJ-b"} |->
        IF pid = "ChIJ-b"
        THEN {DetailNotFound}
        ELSE {DetailRaises, DetailFound}]

\* the same, for the runs that are killed or that execute concurrently
FewDetailResponses == [pid \in {"ChIJ-a", "ChIJ-b"} |-> {DetailFound}]

\* coletar_por_query(client, query)
coletar_por_query(resp) ==
    IF resp.exc THEN <<>> ELSE GetOr(resp.body, "results", <<>>)

\* obter_detalhes_place(place_id, client): (telefone, website)
obter_detalhes_place(resp) ==
    IF resp.exc
    THEN <<PyNone, PyNone>>
    ELSE LET result == GetOr(resp.body, "result", EmptyDict)
         IN  <<Get(result, "formatted_phone_number"), Get(result, "website")>>

\* parse_place with municipio and categoria taken for one another
parse_place_swapped(place, municipio, categoria) ==
    LET loc == GetOr(GetOr(place, "geometry", EmptyDict), "location", EmptyDict)
    IN  [place_id |-> Get(place, "place_id"),
         nome |-> Get(place, "name"),
         endereco |-> Get(place, "formatted_address"),
         municipio |-> PyStr(categoria),
         categoria |-> PyStr(municipio),
         avaliacao |-> Get(place, "rating"),
         numero_avaliacoes |-> Get(place, "user_ratings_total"),
         lat |-> Get(loc, "lat"),
         lng |-> Get(loc, "lng")]

\* parse_place(place, municipio, categoria)
parse_place(place, municipio, categoria) ==
    LET loc == GetOr(GetOr(place, "geometry", EmptyDict), "location", EmptyDict)
    IN  [place_id |-> Get(place, "place_id"),
         nome |-> Get(place, "name"),
         endereco |-> Get(place, "formatted_address"),
         municipio |-> PyStr(municipio),
         categoria |-> PyStr(categoria),
         avaliacao |-> Get(place, "rating"),
         numero_avaliacoes |-> Get(place, "user_ratings_total"),
         lat |-> Get(loc, "lat"),
         lng |-> Get(loc, "lng")]

\* data["telefone"] = telefone; data["website"] = website
Enrich(data, tw) ==
    [k \in DOMAIN data \cup {"telefone", "website"} |->
        IF k = "telefone" THEN tw[1] ELSE IF k = "website" THEN tw[2] ELSE data[k]]

-----------------------------------------------------------------------------
(* collector.py: main and coletar_dados, one action per step *)

Formats == {"csv", "json"}

\* values of --api-key and of GOOGLE_API_KEY (None when not given)
KeyInputs == {PyNone, PyStr(""), PyStr("AIza-key")}

Truthy(x) == x.t = "str" /\ x.v # ""
PyOr(a, b) == IF Truthy(a) THEN a ELSE b

\* api_key = args.api_key or os.getenv("GOOGLE_API_KEY")
ApiKey(argKey, envKey) == PyOr(argKey, envKey)

\* what one invocation of main() did: whether a key was supplied, whether the
\* API client was created, reads and writes of cache.json, output files written
NoTrace ==
    [outcome |-> "none", supplied |-> FALSE, client |-> FALSE,
     reads |-> 0, writes |-> 0, ret |-> <<>>, fmt |-> "", outs |-> <<>>]
NoIntr == [run |-> 0, k |-> 0, at |-> "none", before |-> EmptyDict]

It(r) == Iteration(qi[r])

\* what the process forgets when main() ends or the process dies
Exit(r) ==
    /\ pc' = [pc EXCEPT ![r] = "idle"]
    /\ cache' = [cache EXCEPT ![r] = EmptyDict]
    /\ loaded' = [loaded EXCEPT ![r] = EmptyDict]
    /\ todos' = [todos EXCEPT ![r] = <<>>]
    /\ results' = [results EXCEPT ![r] = <<>>]
    /\ dados' = [dados EXCEPT ![r] = <<>>]
    /\ qi' = [qi EXCEPT ![r] = 0]
    /\ log' = [log EXCEPT ![r] = {}]

\* main(): `if not api_key: return`
MainNoKey(r) ==
    /\ pc[r] = "idle"
    /\ \E argKey, envKey \in KeyInputs :
          /\ ~Truthy(ApiKey(argKey, envKey))
          /\ trace' = [trace EXCEPT ![r] =
                [NoTrace EXCEPT !.outcome = "nokey",
                                !.supplied = Truthy(argKey) \/ Truthy(envKey)]]
    /\ UNCHANGED <<file, outputs, pc, cache, todos, qi, results, dados, run, nruns, nq,
                   loaded, log, hist, failed, saved, intr, dashVars>>

\* main() with a key: coletar_dados creates the client and loads the cache
Start(r) ==
    /\ pc[r] = "idle"
    /\ nruns < MaxRuns
    /\ file.st # "partial"
    /\ \E argKey, envKey \in KeyInputs :
          /\ Truthy(ApiKey(argKey, envKey))
          /\ trace' = [trace EXCEPT ![r] =
                [NoTrace EXCEPT !.outcome = "running",
                                !.supplied = Truthy(argKey) \/ Truthy(envKey),
                                !.client = TRUE, !.reads = 1]]
    /\ nruns' = nruns + 1
    /\ run' = [run EXCEPT ![r] = nruns + 1]
    /\ pc' = [pc EXCEPT ![r] = "loop"]
    /\ cache' = [cache EXCEPT ![r] = carregar_cache]
    /\ loaded' = [loaded EXCEPT ![r] = carregar_cache]
    /\ todos' = [todos EXCEPT ![r] = <<>>]
    /\ qi' = [qi EXCEPT ![r] = 1]
    /\ results' = [results EXCEPT ![r] = <<>>]
    /\ dados' = [dados EXCEPT ![r] = <<>>]
    /\ log' = [log EXCEPT ![r] = {}]
    /\ UNCHANGED <<file, outputs, nq, hist, failed, saved, intr, dashVars>>

\* main() with a key while cache.json is not a complete JSON text:
\* json.load raises in carregar_cache and the process ends with the traceback
LoadFail(r) ==
    /\ pc[r] = "idle"
    /\ file.st = "partial"
    /\ \E argKey, envKey \in KeyInputs :
          /\ Truthy(ApiKey(argKey, envKey))
          /\ trace' = [trace EXCEPT ![r] =
                [NoTrace EXCEPT !.outcome = "load_error",
                                !.supplied = Truthy(argKey) \/ Truthy(envKey),
                                !.client = TRUE, !.reads = 1]]
    /\ UNCHANGED <<file, outputs, pc, cache, todos, qi, results, dados, run, nruns, nq,
                   loaded, log, hist, failed, saved, intr, dashVars>>

\* `if query in cache: todos.extend(cache[query]); continue`
CacheHit(r) ==
    /\ pc[r] = "loop"
    /\ qi[r] <= nq
    /\ InCache(cache[r], It(r).query)
    /\ todos' = [todos EXCEPT ![r] = @ \o cache[r][It(r).query]]
    /\ qi' = [qi EXCEPT ![r] = @ + 1]
    /\ UNCHANGED <<file, outputs, pc, cache, results, dados, run, nruns, nq,
                   loaded, log, trace, hist, failed, saved, intr, dashVars>>

\* `results = coletar_por_query(client, query); dados = []`
\* (responses: what the API can answer)
Search(r, responses) ==
    /\ pc[r] = "loop"
    /\ qi[r] <= nq
    /\ ~InCache(cache[r], It(r).query)
    /\ \E resp \in responses :
          /\ results' = [results EXCEPT ![r] = coletar_por_query(resp)]
          /\ failed' = IF resp.exc THEN failed \cup {<<run[r], It(r).query>>} ELSE failed
    /\ dados' = [dados EXCEPT ![r] = <<>>]
    /\ log' = [log EXCEPT ![r] = @ \cup {<<"search", It(r).query, "">>}]
    /\ pc' = [pc EXCEPT ![r] = "places"]
    /\ UNCHANGED <<file, outputs, cache, todos, qi, run, nruns, nq,
                   loaded, trace, hist, saved, intr, dashVars>>

\* one iteration of `for place in results` (time.sleep changes no state)
Detail(r, responses) ==
    /\ pc[r] = "places"
    /\ results[r] # <<>>
    /\ LET data == parse_place(Head(results[r]), It(r).mun_key, It(r).cat)
       IN  \E resp \in responses[data.place_id.v] :
              /\ dados' = [dados EXCEPT ![r] =
                              Append(@, Enrich(data, obter_detalhes_place(resp)))]
              /\ log' = [log EXCEPT ![r] = @ \cup
                            {<<"details", It(r).query, data.place_id.v>>} \cup
                            (IF resp.exc
                             THEN {<<"details_raised", It(r).query, data.place_id.v>>}
                             ELSE {})]
    /\ results' = [results EXCEPT ![r] = Tail(@)]
    /\ UNCHANGED <<file, outputs, pc, cache, todos, qi, run, nruns, nq,
                   loaded, trace, hist, failed, saved, intr, dashVars>>

\* `cache[query] = dados; salvar_cache(cache); todos.extend(dados)`,
\* for a run that nothing interrupts and no other process observes
Store(r) ==
    /\ pc[r] = "places"
    /\ results[r] = <<>>
    /\ cache' = [cache EXCEPT ![r] = Assign(@, It(r).query, dados[r])]
    /\ file' = salvar_cache(cache'[r])
    /\ todos' = [todos EXCEPT ![r] = @ \o dados[r]]
    /\ qi' = [qi EXCEPT ![r] = @ + 1]
    /\ pc' = [pc EXCEPT ![r] = "loop"]
    /\ trace' = [trace EXCEPT ![r].writes = @ + 1]
    /\ saved' = saved \cup {<<r, It(r).query, dados[r]>>}
    /\ UNCHANGED <<outputs, results, dados, run, nruns, nq,
                   loaded, log, hist, failed, intr, dashVars>>

\* `cache[query] = dados` and salvar_cache's open(CACHE_FILE, "w"), which truncates
SaveOpen(r) ==
    /\ pc[r] = "places"
    /\ results[r] = <<>>
    /\ cache' = [cache EXCEPT ![r] = Assign(@, It(r).query, dados[r])]
    /\ file' = Truncated
    /\ pc' = [pc EXCEPT ![r] = "saving"]
    /\ UNCHANGED <<outputs, todos, qi, results, dados, run, nruns, nq,
                   loaded, log, trace, hist, failed, saved, intr, dashVars>>

\* the end of salvar_cache's json.dump, then `todos.extend(dados)`
SaveWrite(r) ==
    /\ pc[r] = "saving"
    /\ file' = salvar_cache(cache[r])
    /\ todos' = [todos EXCEPT ![r] = @ \o dados[r]]
    /\ qi' = [qi EXCEPT ![r] = @ + 1]
    /\ pc' = [pc EXCEPT ![r] = "loop"]
    /\ trace' = [trace EXCEPT ![r].writes = @ + 1]
    /\ saved' = saved \cup {<<r, It(r).query, dados[r]>>}
    /\ UNCHANGED <<outputs, cache, results, dados, run, nruns, nq,
                   loaded, log, hist, failed, intr, dashVars>>

CsvCell(x) == IF x.t = "None" THEN "" ELSE x.v

\* salvar_json(data, path)
salvar_json(data) ==
    [kind |-> "json", rows |-> [i \in 1..Len(data) |-> JsonDumpRec(data[i])]]

\* salvar_csv(data, path)
salvar_csv(data) ==
    [kind |-> "csv",
     rows |-> [i \in 1..Len(data) |-> [k \in DOMAIN data[i] |-> CsvCell(data[i][k])]]]

\* out_path = f"{args.output_file}.{args.output_format}", with the default base name
OutPath(f) == "leads_baixada" \o "." \o f

\* main() writing the output whatever was collected
MainOutputAlways(data, f) ==
    IF f = "json"
    THEN <<[path |-> OutPath(f), content |-> salvar_json(data)]>>
    ELSE <<[path |-> OutPath(f), content |-> salvar_csv(data)]>>

\* main() after coletar_dados: the files it writes, in order
MainOutput(data, f) ==
    IF data = <<>>
    THEN <<>>
    ELSE IF f = "json"
         THEN <<[path |-> OutPath(f), content |-> salvar_json(data)]>>
         ELSE <<[path |-> OutPath(f), content |-> salvar_csv(data)]>>

RECURSIVE WriteAll(_, _)
WriteAll(fs, ws) ==
    IF ws = <<>>
    THEN fs
    ELSE WriteAll([p \in DOMAIN fs \cup {ws[1].path} |->
                      IF p = ws[1].path THEN ws[1].content ELSE fs[p]], Tail(ws))

\* `return todos`, and the rest of main(); args.output_format, parsed when main()
\* starts and read only here, is drawn here
Return(r) ==
    /\ pc[r] = "loop"
    /\ qi[r] = nq + 1
    /\ \E f \in Formats :
          LET ws == MainOutput(todos[r], f)
          IN  /\ outputs' = WriteAll(outputs, ws)
              /\ trace' = [trace EXCEPT ![r].outcome = "returned",
                                        ![r].ret = todos[r],
                                        ![r].fmt = f,
                                        ![r].outs = ws]
    /\ hist' = Append(hist, [proc |-> r, run |-> run[r], ret |-> todos[r], calls |-> log[r]])
    /\ Exit(r)
    /\ UNCHANGED <<file, run, nruns, nq, failed, saved, intr, dashVars>>

\* the process is killed while it works on query qi[r]
Interrupt(r) ==
    /\ pc[r] \in {"loop", "places", "saving"}
    /\ qi[r] <= nq
    /\ LET done == DOMAIN loaded[r] \cup {Iteration(j).query : j \in 1..(qi[r] - 1)}
       IN  intr' = [run |-> run[r], k |-> qi[r], at |-> pc[r],
                    before |-> [q \in done \cap DOMAIN cache[r] |-> cache[r][q]]]
    /\ trace' = [trace EXCEPT ![r].outcome = "interrupted"]
    /\ Exit(r)
    /\ UNCHANGED <<file, outputs, run, nruns, nq, hist, failed, saved, dashVars>>

-----------------------------------------------------------------------------
(* Initial states *)

OldRecord == Enrich(parse_place(PlaceB, "Bertioga", "adega"), <<PyNone, PyNone>>)

\* cache.json before the first run: absent, or left by earlier runs
InitialFiles ==
    { [st |-> "missing", txt |-> EmptyDict],
      salvar_cache(EmptyDict),
      salvar_cache([q \in {Iteration(2).query} |-> <<OldRecord>>]),
      salvar_cache([q \in {"pub em Santos, SP"} |-> <<>>]) }

NoCsv == [exists |-> FALSE, parse |-> "ok", cols |-> {}, rows |-> <<>>]
NoTable == [none |-> TRUE, cols |-> {}, rows |-> <<>>]

InitDashIdle ==
    /\ csv = NoCsv
    /\ df = NoTable
    /\ mun_sel = {}
    /\ cat_sel = {}
    /\ df_filt = <<>>
    /\ dpc = "off"

InitCollector ==
    /\ file \in InitialFiles
    /\ outputs = EmptyDict
    /\ pc = [r \in Procs |-> "idle"]
    /\ cache = [r \in Procs |-> EmptyDict]
    /\ todos = [r \in Procs |-> <<>>]
    /\ qi = [r \in Procs |-> 0]
    /\ results = [r \in Procs |-> <<>>]
    /\ dados = [r \in Procs |-> <<>>]
    /\ run = [r \in Procs |-> 0]
    /\ nruns = 0
    /\ loaded = [r \in Procs |-> EmptyDict]
    /\ log = [r \in Procs |-> {}]
    /\ trace = [r \in Procs |-> NoTrace]
    /\ hist = <<>>
    /\ failed = {}
    /\ saved = {<<"init", q, carregar_cache[q]>> : q \in DOMAIN carregar_cache}
    /\ intr = NoIntr

\* sequential runs of the collector, none interrupted
Init ==
    /\ InitCollector
    /\ nq = NumQueries
    /\ InitDashIdle

Next ==
    \E r \in {"A"} :
        \/ MainNoKey(r)
        \/ Start(r)
        \/ CacheHit(r)
        \/ Search(r, SearchResponses)
        \/ Detail(r, DetailResponses)
        \/ Store(r)
        \/ Return(r)

Spec == Init /\ [][Next]_vars

\* sequential runs of the collector that can be killed at any step
InitFew ==
    /\ InitCollector
    /\ nq = FewQueries
    /\ InitDashIdle

NextCrash ==
    \E r \in {"A"} :
        \/ Start(r)
        \/ LoadFail(r)
        \/ CacheHit(r)
        \/ Search(r, FewSearchResponses \cup {NoResults})
        \/ Detail(r, FewDetailResponses)
        \/ SaveOpen(r)
        \/ SaveWrite(r)
        \/ Return(r)
        \/ Interrupt(r)

SpecCrash == InitFew /\ [][NextCrash]_vars

\* two collector processes on the same cache.json
\* each of the two processes runs main() once
StartOnce(r) ==
    /\ run[r] = 0
    /\ Start(r)

NextConc ==
    \E r \in Procs :
        \/ StartOnce(r)
        \/ LoadFail(r)
        \/ CacheHit(r)
        \/ Search(r, FewSearchResponses)
        \/ Detail(r, FewDetailResponses)
        \/ SaveOpen(r)
        \/ SaveWrite(r)
        \/ Return(r)

SpecConc == InitFew /\ [][NextConc]_vars

-----------------------------------------------------------------------------
(* app_streamlit_folium.py: load_data_from_file *)

required_cols == {"nome", "endereco", "municipio", "categoria", "lat", "lng"}
optional_cols == {"avaliacao", "numero_avaliacoes", "telefone", "website"}

\* the numbers that cell texts denote, in hundredths
NumberOf ==
    [s \in {"-23.96", "-23.960", "-46.33"} |->
        IF s = "-46.33" THEN -4633 ELSE -2396]

NaN == [nan |-> TRUE, v |-> 0]

\* pd.to_numeric(cell, errors="coerce"): the empty cell and any text that is
\* no number become NaN
to_numeric(s) ==
    IF s \in DOMAIN NumberOf THEN [nan |-> FALSE, v |-> NumberOf[s]] ELSE NaN

\* astype(str): the empty cell (NaN) becomes the text "nan"
astype_str(s) == IF s = "" THEN "nan" ELSE s

\* str.strip()
strip(s) ==
    IF s = " adega " THEN "adega" ELSE s

\* the cells of one row after the conversions of lines 36-44
Convert(cells) ==
    [c \in DOMAIN cells \cup optional_cols |->
        IF c \notin DOMAIN cells THEN "None"
        ELSE IF c = "municipio" THEN astype_str(cells[c])
        ELSE IF c = "categoria" THEN strip(astype_str(cells[c]))
        ELSE cells[c]]

\* df.dropna(subset=["lat"]) only
dropna_lat_only(rows) ==
    LET Keep(x) == ~x.lat.nan
    IN  SelectSeq(rows, Keep)

\* df.dropna(subset=["lat", "lng"])
dropna(rows) ==
    LET Keep(x) == ~x.lat.nan /\ ~x.lng.nan
    IN  SelectSeq(rows, Keep)

\* load_data_from_file(filename): None, or the table;
\* a row is [idx: its index label, lat, lng: numbers, cells: the other columns]
load_data_from_file(f) ==
    IF ~f.exists
    THEN NoTable
    ELSE IF f.parse = "error"
    THEN NoTable    \* pd.read_csv raises: `except Exception`, no return value
    ELSE IF ~(required_cols \subseteq f.cols)
    THEN NoTable
    ELSE [none |-> FALSE,
          cols |-> f.cols \cup optional_cols,
          rows |-> dropna([i \in 1..Len(f.rows) |->
                              [idx |-> i,
                               lat |-> to_numeric(f.rows[i]["lat"]),
                               lng |-> to_numeric(f.rows[i]["lng"]),
                               cells |-> Convert(f.rows[i])]])]

-----------------------------------------------------------------------------
(* app_streamlit_folium.py: the sidebar and the filter *)

\* df["municipio"].unique(), df["categoria"].unique()
mun_options(t) == {t.rows[i].cells["municipio"] : i \in 1..Len(t.rows)}
all_cat_options(t) == {t.rows[i].cells["categoria"] : i \in 1..Len(t.rows)}

\* the filter without the `if not cat_sel` branch
apply_filters_strict(rows, ms, cs) ==
    LET Both(x) == x.cells["municipio"] \in ms /\ x.cells["categoria"] \in cs
    IN  SelectSeq(rows, Both)

\* lines 120-123: df_filt
apply_filters(rows, ms, cs) ==
    LET Mun(x) == x.cells["municipio"] \in ms
        Both(x) == x.cells["municipio"] \in ms /\ x.cells["categoria"] \in cs
    IN  IF cs = {} THEN SelectSeq(rows, Mun) ELSE SelectSeq(rows, Both)

\* rows of the CSV file, as texts of the cells
RowPool ==
    LET Row(m, c, la, ln) ==
            [nome |-> "n", endereco |-> "e", municipio |-> m, categoria |-> c,
             lat |-> la, lng |-> ln, telefone |-> "t"]
    IN  { Row("Santos", "bar", "-23.96", "-46.33"),
          Row("Santos", " adega ", "-23,96", "-46.33"),
          Row("Guaruja", "adega", "-23.960", "-46.33"),
          Row("", "bar", "-23.96", "") }

RECURSIVE SeqsUpTo(_, _)
SeqsUpTo(S, n) ==
    IF n = 0
    THEN {<<>>}
    ELSE LET shorter == SeqsUpTo(S, n - 1)
         IN  shorter \cup {Append(q, x) : q \in shorter, x \in S}

Headers ==
    { required_cols,
      required_cols \cup {"telefone"},
      required_cols \ {"lat"},
      required_cols \ {"categoria"} }

Restrict(cells, cols) == [c \in cols |-> cells[c]]

\* the CSV files the dashboard is started on
CsvInputs ==
    {NoCsv} \cup
    { [exists |-> TRUE, parse |-> p, cols |-> h,
       rows |-> [i \in 1..Len(rs) |-> Restrict(rs[i], h)]] :
        p \in {"ok", "error"}, h \in Headers, rs \in SeqsUpTo(RowPool, MaxRows) }

\* df = load_data_from_file()
Load ==
    /\ dpc = "start"
    /\ df' = load_data_from_file(csv)
    /\ dpc' = IF df'.none THEN "failed" ELSE "loaded"
    /\ UNCHANGED <<csv, mun_sel, cat_sel, df_filt, collectorVars>>

\* the two multiselects: any subsets of the options
Select ==
    /\ dpc = "loaded"
    /\ mun_sel' \in SUBSET mun_options(df)
    /\ cat_sel' \in SUBSET all_cat_options(df)
    /\ dpc' = "selected"
    /\ UNCHANGED <<csv, df, df_filt, collectorVars>>

\* lines 118-123
Filter ==
    /\ dpc = "selected"
    /\ df_filt' = apply_filters(df.rows, mun_sel, cat_sel)
    /\ dpc' = "filtered"
    /\ UNCHANGED <<csv, df, mun_sel, cat_sel, collectorVars>>

InitDash ==
    /\ InitCollector
    /\ file.st = "missing"
    /\ nq = NumQueries
    /\ csv \in CsvInputs
    /\ df = NoTable
    /\ mun_sel = {}
    /\ cat_sel = {}
    /\ df_filt = <<>>
    /\ dpc = "start"

NextDash == Load \/ Select \/ Filter

SpecDash == InitDash /\ [][NextDash]_vars

-----------------------------------------------------------------------------
(* Properties of the collector *)

Queries(n) == {Iteration(k).query : k \in 1..n}

\* what a run starting now would load
DiskCache == carregar_cache

\* the record lists of the first k queries, concatenated in loop order
RECURSIVE ConcatFirst(_, _)
ConcatFirst(c, k) ==
    IF k = 0 THEN <<>> ELSE ConcatFirst(c, k - 1) \o c[Iteration(k).query]

Range(seq) == {seq[i] : i \in 1..Len(seq)}

Running(r) == pc[r] # "idle"

\* C1: a query that is a key of the cache loaded at the start of the run causes
\* no search call and no details call, and the records loaded under that key are
\* appended to the list unchanged, at the query's place.
C1_CachedQueryNoApi ==
    \A r \in Procs : Running(r) =>
        /\ \A e \in log[r] : e[2] \notin DOMAIN loaded[r]
        /\ \A k \in 1..(qi[r] - 1) :
              LET q == Iteration(k).query
                  off == Len(ConcatFirst(cache[r], k - 1))
              IN  q \in DOMAIN loaded[r] =>
                     /\ Len(todos[r]) >= off + Len(loaded[r][q])
                     /\ SubSeq(todos[r], off + 1, off + Len(loaded[r][q])) = loaded[r][q]

\* a run that found a non-empty record list in the loaded cache, has passed it,
\* and has called the API for other queries
C1_Witness ==
    \E r \in Procs :
        /\ pc[r] = "loop"
        /\ qi[r] = nq + 1
        /\ Iteration(2).query \in DOMAIN loaded[r]
        /\ loaded[r][Iteration(2).query] # <<>>
        /\ log[r] # {}

\* C2: once a run of coletar_dados has completed, cache.json holds an entry for
\* every query, and every later run makes no API call and returns the list the
\* earlier run returned.
C2_SecondRunFromCache ==
    Len(hist) >= 1 =>
        /\ file.st = "ok"
        /\ Queries(nq) \subseteq DOMAIN DiskCache
        /\ \A i, j \in 1..Len(hist) : i < j =>
              /\ hist[j].calls = {}
              /\ hist[j].ret = hist[i].ret

\* two completed runs, the first of which called the API and collected a record
\* holding a None
C2_Witness ==
    /\ Len(hist) >= 2
    /\ hist[1].calls # {}
    /\ \E x \in Range(hist[1].ret) : x.telefone = PyNone

Holds(c, e) == e[2] \in DOMAIN c /\ c[e[2]] = e[3]

\* C3: an entry that cache.json has once held (left by earlier runs, or written by
\* a run) is never modified or removed: the file holds it, with the same record
\* list, ever after, and so does the dict of every running process.
C3_NoExpiry ==
    saved # {} =>
        /\ file.st = "ok"
        /\ LET disk == DiskCache
           IN  \A e \in saved :
                  /\ Holds(disk, e)
                  /\ \A r \in Procs : Running(r) => Holds(cache[r], e)

\* the file holds an entry that no run iterates over, next to the entries that two
\* runs left
C3_Witness ==
    /\ Len(hist) >= 2
    /\ file.st = "ok"
    /\ "pub em Santos, SP" \in DOMAIN DiskCache
    /\ Queries(nq) \subseteq DOMAIN DiskCache

\* C7: after a search that raised, coletar_por_query has returned the empty list,
\* the run goes on to the end, the empty list is in the dict and in cache.json
\* under that query, and no later run sends the query to the API.
C7_FailedSearchCached ==
    \A f \in failed :
        /\ \A r \in Procs : (run[r] = f[1] /\ pc[r] = "places" /\ It(r).query = f[2]) =>
              results[r] = <<>> /\ dados[r] = <<>>
        /\ \A r \in Procs :
              (run[r] = f[1] /\ pc[r] = "loop" /\ f[2] \in Queries(qi[r] - 1)) =>
                 /\ f[2] \in DOMAIN cache[r] /\ cache[r][f[2]] = <<>>
                 /\ file.st = "ok"
                 /\ f[2] \in DOMAIN DiskCache /\ DiskCache[f[2]] = <<>>
        /\ \A r \in Procs : (run[r] > f[1] /\ Running(r)) =>
              \A e \in log[r] : e[2] # f[2]
        /\ \A j \in 1..Len(hist) : hist[j].run > f[1] =>
              \A e \in hist[j].calls : e[2] # f[2]

\* a run in which a search raised went on to collect records for other queries,
\* and a later run has completed
C7_Witness ==
    /\ Len(hist) >= 2
    /\ \E f \in failed : f[1] = hist[1].run
    /\ hist[1].ret # <<>>

Tagged(recs, k) ==
    \A x \in Range(recs) :
        /\ x.municipio = PyStr(Iteration(k).mun_key)
        /\ x.categoria = PyStr(Iteration(k).cat)

\* C9: the list a run builds is the concatenation, in loop order, of the record
\* lists of the queries it has passed, cached or collected; every collected record
\* carries the municipality key and the category of its query; a record whose
\* details call raised is in the list, with telefone and website None.
C9_ConcatInLoopOrder ==
    /\ \A r \in Procs : pc[r] = "loop" =>
          /\ todos[r] = ConcatFirst(cache[r], qi[r] - 1)
          /\ \A k \in 1..(qi[r] - 1) :
                Iteration(k).query \notin DOMAIN loaded[r] =>
                    Tagged(cache[r][Iteration(k).query], k)
          /\ \A e \in log[r] : e[1] = "details_raised" =>
                \E i \in 1..Len(todos[r]) :
                    /\ todos[r][i].place_id.v = e[3]
                    /\ \E k \in 1..nq :
                          /\ Iteration(k).query = e[2]
                          /\ todos[r][i].municipio = PyStr(Iteration(k).mun_key)
                          /\ todos[r][i].categoria = PyStr(Iteration(k).cat)
                    /\ todos[r][i].telefone = PyNone
                    /\ todos[r][i].website = PyNone
    /\ \A j \in 1..Len(hist) :
          file.st = "ok" /\ hist[j].ret = ConcatFirst(DiskCache, nq)

\* a completed run returned records of two municipalities, one of them after a
\* details call that raised
C9_Witness ==
    /\ Len(hist) >= 1
    /\ \E x, y \in Range(hist[1].ret) :
          /\ x.municipio = PyStr("Bertioga")
          /\ y.municipio = PyStr("Cubatao")
    /\ \E e \in hist[1].calls : e[1] = "details_raised"

\* C10: without a key main creates no client, does not touch cache.json and writes
\* nothing; after an empty collection it writes nothing; after a non-empty one it
\* writes exactly one file, JSON for --output-format json and CSV otherwise; an
\* output file exists only after a non-empty collection.
C10_OutputOnlyAfterData ==
    /\ \A r \in Procs :
          LET t == trace[r]
          IN  /\ (t.outcome # "none" /\ ~t.supplied) =>
                    /\ t.outcome = "nokey"
                    /\ ~t.client /\ t.reads = 0 /\ t.writes = 0 /\ t.outs = <<>>
                    /\ ~Running(r)
              /\ (t.outcome = "returned" /\ t.ret = <<>>) => t.outs = <<>>
              /\ (t.outcome = "returned" /\ t.ret # <<>>) =>
                    /\ Len(t.outs) = 1
                    /\ t.outs[1].content.kind = (IF t.fmt = "json" THEN "json" ELSE "csv")
                    /\ t.outs[1].path \in DOMAIN outputs
                    /\ outputs[t.outs[1].path] = t.outs[1].content
    /\ DOMAIN outputs # {} => \E j \in 1..Len(hist) : hist[j].ret # <<>>

\* main has written one JSON file after a non-empty collection
C10_Witness ==
    \E r \in Procs :
        /\ trace[r].outcome = "returned"
        /\ trace[r].ret # <<>>
        /\ trace[r].fmt = "json"
        /\ Len(trace[r].outs) = 1
        /\ DOMAIN outputs = {"leads_baixada.json"}

-----------------------------------------------------------------------------
(* Properties of runs that are killed, and of concurrent runs *)

\* the entries of dict c are in cache.json, with the same record lists
OnDisk(c) ==
    /\ file.st # "partial"
    /\ \A q \in DOMAIN c : q \in DOMAIN DiskCache /\ DiskCache[q] = c[q]

\* C8 as stated: between two queries the file equals the dict; after a kill during
\* query k the file holds every entry completed before k; the restarted run calls
\* the API only for queries that were not completed.
C8_Original ==
    /\ \A r \in Procs : pc[r] = "loop" =>
          file.st # "partial" /\ DiskCache = cache[r]
    /\ (intr.at # "none" /\ nruns = intr.run /\ \A r \in Procs : ~Running(r)) =>
          OnDisk(intr.before)
    /\ \A r \in Procs : (intr.at # "none" /\ Running(r) /\ run[r] = intr.run + 1) =>
          \A e \in log[r] : e[2] \notin DOMAIN intr.before

\* C8, amended: the same, for a kill that does not fall inside salvar_cache
\* (between its open(..., "w") and the end of json.dump).
C8_Amended ==
    /\ \A r \in Procs : pc[r] = "loop" =>
          file.st # "partial" /\ DiskCache = cache[r]
    /\ (intr.at \in {"loop", "places"} /\ nruns = intr.run /\ \A r \in Procs : ~Running(r)) =>
          OnDisk(intr.before)
    /\ \A r \in Procs : (intr.at \in {"loop", "places"} /\ Running(r) /\ run[r] = intr.run + 1) =>
          \A e \in log[r] : e[2] \notin DOMAIN intr.before

\* a run killed in its second query, after it had saved the first; the restarted
\* run has called the API and reached the end of the loop
C8_Witness ==
    \E r \in Procs :
        /\ intr.at = "places"
        /\ intr.k = 2
        /\ \E e \in saved : e[1] = r /\ e[2] \in DOMAIN intr.before
        /\ run[r] = intr.run + 1
        /\ pc[r] = "loop"
        /\ qi[r] = nq + 1
        /\ log[r] # {}

-----------------------------------------------------------------------------
(* Properties of the dashboard *)

Indices(rows) == [i \in 1..Len(rows) |-> rows[i].idx]

Increasing(is) == \A i, j \in 1..Len(is) : i < j => is[i] < is[j]

\* rows is made of exactly the rows of table t that satisfy Keep, in t's order
ExactlyRows(rows, t, Keep(_)) ==
    /\ Range(rows) = {x \in Range(t) : Keep(x)}
    /\ Increasing(Indices(rows))

\* C5 as stated: df_filt is exactly the loaded rows whose municipio is in mun_sel
\* and whose categoria is in cat_sel.
C5_Original ==
    LET Keep(x) == x.cells["municipio"] \in mun_sel /\ x.cells["categoria"] \in cat_sel
    IN  dpc = "filtered" => ExactlyRows(df_filt, df.rows, Keep)

\* C5, amended: so it is when cat_sel is not empty; when cat_sel is empty, df_filt
\* is exactly the loaded rows whose municipio is in mun_sel.
C5_Amended ==
    LET Keep(x) ==
            /\ x.cells["municipio"] \in mun_sel
            /\ (cat_sel # {} => x.cells["categoria"] \in cat_sel)
    IN  dpc = "filtered" => ExactlyRows(df_filt, df.rows, Keep)

\* a selection of categories and municipalities that keeps one row and drops another
C5_Witness ==
    /\ dpc = "filtered"
    /\ cat_sel # {}
    /\ mun_sel # {}
    /\ df_filt # <<>>
    /\ Len(df_filt) < Len(df.rows)

IsNumber(s) == s \in DOMAIN NumberOf

NumericRows(rows) == \A x \in Range(rows) : ~x.lat.nan /\ ~x.lng.nan

\* the table holds exactly the rows of the file whose lat and lng are numbers
ExactlyParsed ==
    /\ ~df.none
    /\ Increasing(Indices(df.rows))
    /\ Range(Indices(df.rows)) =
          {i \in 1..Len(csv.rows) : IsNumber(csv.rows[i]["lat"]) /\ IsNumber(csv.rows[i]["lng"])}
    /\ NumericRows(df.rows)
    /\ NumericRows(df_filt)
    /\ Range(df_filt) \subseteq Range(df.rows)

\* C6 as stated: None when the file does not exist or lacks a required column;
\* otherwise exactly the rows with numeric lat and lng.
C6_Original ==
    dpc # "start" =>
        IF ~csv.exists \/ ~(required_cols \subseteq csv.cols)
        THEN df.none
        ELSE ExactlyParsed

\* C6, amended: None also when reading the file raises.
C6_Amended ==
    dpc # "start" =>
        IF ~csv.exists \/ csv.parse = "error" \/ ~(required_cols \subseteq csv.cols)
        THEN df.none
        ELSE ExactlyParsed

\* a file of two rows, one of which was dropped, has reached the filter
C6_Witness ==
    /\ dpc = "filtered"
    /\ Len(csv.rows) = 2
    /\ Len(df.rows) = 1
    /\ df_filt # <<>>

=============================================================================
